---- MODULE Spec2Model ----
(***************************************************************************)
(* A model of app.py (IG Reels Resolver): the resolve operation with its   *)
(* fast path and its Playwright fallback, and the reel collector with its  *)
(* scroll-and-harvest loop.  Text (URLs, hrefs, cookie headers) is a       *)
(* sequence of one-character strings so that the string operations of the  *)
(* source (split, strip, endswith, in, sorted) are computed, not assumed.  *)
(***************************************************************************)
EXTENDS Integers, Sequences, FiniteSets, TLC

(*------------------------------ bounds ----------------------------------*)
\* number of distinct reel ids the modelled page can show
NumIds == 3
\* longest list of hrefs one eval_on_selector_all call returns
MaxBatch == 2
\* largest value of the optional max of ReelsQuery that is tried
MaxMax == 2
\* longest cookie_header tried character by character
MaxCookieLen == 4

(*------------------------- program constants ----------------------------*)
idle_limit == 15
UpstreamErrorFloor == 400
BadGateway == 502

(*------------------------------ text ------------------------------------*)
\* Characters in code-point order (Python compares str by code point).
Alphabet ==
  << " ", ".", "/", "1", "2", "3", ":", ";", "=", "?", "@",
     "a", "b", "c", "d", "e", "g", "h", "i", "j", "k", "l", "m", "n", "p", "r",
     "s", "t", "u", "v", "x", "z" >>

Ord(c) == CHOOSE i \in 1..Len(Alphabet) : Alphabet[i] = c

Min(a, b) == IF a <= b THEN a ELSE b

\* Python: a < b on str
RECURSIVE StrLess(_, _)
StrLess(a, b) ==
  IF a = <<>> THEN b # <<>>
  ELSE IF b = <<>> THEN FALSE
  ELSE IF Head(a) = Head(b) THEN StrLess(Tail(a), Tail(b))
  ELSE Ord(Head(a)) < Ord(Head(b))

\* Python: sub in s
Contains(s, sub) ==
  \E i \in 1..(Len(s) - Len(sub) + 1) : SubSeq(s, i, i + Len(sub) - 1) = sub

\* Python: s.endswith(suffix)
EndsWith(s, suffix) ==
  /\ Len(s) >= Len(suffix)
  /\ SubSeq(s, Len(s) - Len(suffix) + 1, Len(s)) = suffix

\* Python: s.startswith(prefix)
StartsWith(s, prefix) ==
  /\ Len(s) >= Len(prefix)
  /\ SubSeq(s, 1, Len(prefix)) = prefix

\* Python: s.split(sep) for a one-character sep
RECURSIVE Split(_, _)
Split(s, sep) ==
  IF \A i \in 1..Len(s) : s[i] # sep THEN << s >>
  ELSE LET i == CHOOSE k \in 1..Len(s) :
                  s[k] = sep /\ \A j \in 1..(k - 1) : s[j] # sep
       IN  << SubSeq(s, 1, i - 1) >> \o Split(SubSeq(s, i + 1, Len(s)), sep)

\* faulty variant: split on every separator
Split1Every(s, sep) == Split(s, sep)

\* Python: s.split(sep, 1)
Split1(s, sep) ==
  IF \A i \in 1..Len(s) : s[i] # sep THEN << s >>
  ELSE LET i == CHOOSE k \in 1..Len(s) :
                  s[k] = sep /\ \A j \in 1..(k - 1) : s[j] # sep
       IN  << SubSeq(s, 1, i - 1), SubSeq(s, i + 1, Len(s)) >>

\* Python: s.strip() (the only white space of the alphabet is the blank)
RECURSIVE LStrip(_)
LStrip(s) == IF s # <<>> /\ Head(s) = " " THEN LStrip(Tail(s)) ELSE s

RECURSIVE RStrip(_)
RStrip(s) ==
  IF s # <<>> /\ s[Len(s)] = " " THEN RStrip(SubSeq(s, 1, Len(s) - 1)) ELSE s

Strip(s) == RStrip(LStrip(s))

\* Python: sorted(S) for a set of str
RECURSIVE Sorted(_)
Sorted(S) ==
  IF S = {} THEN <<>>
  ELSE LET m == CHOOSE x \in S : \A y \in S : x = y \/ StrLess(x, y)
       IN  << m >> \o Sorted(S \ {m})

\* Optional[...] of Python: None, or a value
None == [some |-> FALSE, val |-> <<>>]
Some(v) == [some |-> TRUE, val |-> v]

(*----------------------- the data the model draws from ------------------*)
ReelMarker == << "/", "r", "e", "e", "l", "/" >>                              \* "/reel/"
Slash == << "/" >>

IdChars == << "a", "b", "c", "d", "e" >>
Ids == { IdChars[i] : i \in 1..NumIds }

\* What e.href can be for an anchor the selector matched (the scheme and
\* host, common to all, are left out): every reel with the trailing
\* separator, the first reel also without it, and one link that does not
\* hold the marker.
OtherHref == << "/", "p", "/", "a", "/" >>                                \* "/p/a/"
Hrefs ==
  { ReelMarker \o << c, "/" >> : c \in Ids } \cup
  { ReelMarker \o << IdChars[1] >>, OtherHref }

RECURSIVE SeqsUpTo(_, _)
SeqsUpTo(S, n) ==
  IF n = 0 THEN { <<>> }
  ELSE LET shorter == SeqsUpTo(S, n - 1)
       IN  shorter \cup { Append(q, x) : q \in shorter, x \in S }

\* the lists one harvest query can return
Batches == SeqsUpTo(Hrefs, MaxBatch)

\* media URLs a page can declare
UrlSigned == << "h", "t", "t", "p", "s", ":", "/", "/", "x", "/", "a", "b", "c", "1", "2", "3", ".", "m", "p", "4", "?", "s", "i", "g", "=", "z", "z", "z" >>   \* "https://x/abc123.mp4?sig=zzz"
UrlPlain == << "h", "t", "t", "p", ":", "/", "/", "x", "/", "b", ".", "m", "p", "4" >>                        \* "http://x/b.mp4"
UrlRelative == << "/", "v", "/", "c", ".", "m", "p", "4" >>                                    \* "/v/c.mp4"

\* An HTML document is the sequence of its elements; an element is its tag,
\* its property attribute and its content attribute.
Meta(prop, content) == [tag |-> "meta", prop |-> prop, content |-> content]
TitleElement == [tag |-> "title", prop |-> "", content |-> <<>>]

DocPlain == << TitleElement, Meta("og:image", UrlPlain) >>
DocVideo == << TitleElement, Meta("og:video", UrlSigned) >>
DocVideoUpper == << Meta("OG:Video", UrlPlain), Meta("og:video", UrlSigned) >>
DocVideoRelative == << Meta("og:video", UrlRelative) >>
Docs == { DocPlain, DocVideo, DocVideoUpper, DocVideoRelative }

\* final response statuses of the fast-path GET (redirects are followed)
Statuses == { 200, 399, 400, 404 }

\* cookie_header values
CookieTwo == << "a", "=", "1", ";", " ", "b", "=", "2", "=", "x" >>   \* "a=1; b=2=x"
CookieJunk == << "j", "u", "n", "k", ";", " " >>                             \* "junk; "
CookieHeaders == { None, Some(CookieTwo), Some(CookieJunk) }

\* every cookie_header of up to MaxCookieLen characters over a name
\* character, '=', ';' and the blank, and the two headers above
CookieChars == { "a", "=", ";", " " }
CookieStrings ==
  { None, Some(CookieTwo), Some(CookieJunk) } \cup
  { Some(h) : h \in SeqsUpTo(CookieChars, MaxCookieLen) }

\* max of ReelsQuery, a result count: None, or a natural number
NoMax == [some |-> FALSE, val |-> 0]
MaxCounts == { NoMax } \cup { [some |-> TRUE, val |-> n] : n \in 0..MaxMax }

(*------------------------ pure functions of app.py ----------------------*)
\* re.I: the property name is matched without regard to case
LowerOf(prop) ==
  CASE prop = "OG:Video" -> "og:video"
    [] prop = "OG:VIDEO" -> "og:video"
    [] OTHER -> prop

\* _extract_og_video: the content of the first og:video meta element, whose
\* content ([^"]+) is not empty; None without one.
IsOgVideo(el) ==
  el.tag = "meta" /\ LowerOf(el.prop) = "og:video" /\ el.content # <<>>

_extract_og_video(html) ==
  IF \E i \in 1..Len(html) : IsOgVideo(html[i])
  THEN LET i == CHOOSE k \in 1..Len(html) :
                  IsOgVideo(html[k]) /\ \A j \in 1..(k - 1) : ~IsOgVideo(html[j])
       IN  Some(html[i].content)
  ELSE None

\* pydantic HttpUrl (the type of ResolveOut.mp4_url): an http or https URL
\* with a host
HttpScheme == << "h", "t", "t", "p", ":", "/", "/" >>
HttpsScheme == << "h", "t", "t", "p", "s", ":", "/", "/" >>
HasHostAfter(u, scheme) ==
  /\ StartsWith(u, scheme)
  /\ Len(u) > Len(scheme)
  /\ u[Len(scheme) + 1] # "/"
IsHttpUrl(u) == HasHostAfter(u, HttpScheme) \/ HasHostAfter(u, HttpsScheme)

\* mp4.split("/")[-1].split("?")[0]
VidId(mp4) ==
  LET segments == Split(mp4, "/")
  IN  Split(segments[Len(segments)], "?")[1]

\* f"{vid_id}.mp4"
DotMp4 == << ".", "m", "p", "4" >>
Filename(mp4) == VidId(mp4) \o DotMp4

\* The cookie loop of _playwright_fetch_html and _playwright_collect_reels:
\* one record per ';' fragment that holds an '='.
CookieDomain == ".instagram.com"
CookiePath == "/"
RECURSIVE CookiesOfParts(_)
CookiesOfParts(parts) ==
  IF parts = <<>> THEN <<>>
  ELSE LET part == Strip(Head(parts))
           rest == CookiesOfParts(Tail(parts))
       IN  IF ~Contains(part, << "=" >>) THEN rest
           ELSE LET nv == Split1(part, "=")
                IN  << [name |-> Strip(nv[1]), value |-> Strip(nv[2]),
                        domain |-> CookieDomain, path |-> CookiePath] >> \o rest

\* the cookies list; empty when cookie_header is None or ""
ParseCookies(cookie_header) ==
  IF cookie_header.some /\ cookie_header.val # <<>>
  THEN CookiesOfParts(Split(cookie_header.val, ";"))
  ELSE <<>>

\* faulty variant: hrefs are kept as harvested
CanonicalAsIs(href) == href

\* if not href.endswith("/"): href = href + "/"
Canonical(href) == IF EndsWith(href, Slash) THEN href ELSE href \o Slash

\* faulty variant: 0 counts as a maximum
TruthySome(max_count) == max_count.some

\* Python truth value of max_count: None and 0 are false
Truthy(max_count) == max_count.some /\ max_count.val # 0

\* faulty variant: the cap is tested with > instead of >=
CapReachedLate(seen, max_count) ==
  Truthy(max_count) /\ Cardinality(seen) > max_count.val

\* max_count and len(seen) >= max_count
CapReached(seen, max_count) ==
  Truthy(max_count) /\ Cardinality(seen) >= max_count.val

\* The for loop over hrefs of one round, from the i-th href on: the set after
\* the loop, the number of links added, and the number of hrefs the loop
\* reached before it ended or broke.
RECURSIVE ForHrefs(_, _, _, _, _)
ForHrefs(hrefs, i, seen, new, max_count) ==
  IF i > Len(hrefs) THEN [seen |-> seen, new |-> new, reached |-> Len(hrefs)]
  ELSE IF ~Contains(hrefs[i], ReelMarker)
       THEN ForHrefs(hrefs, i + 1, seen, new, max_count)
  ELSE LET href == Canonical(hrefs[i])
       IN  IF href \in seen
           THEN ForHrefs(hrefs, i + 1, seen, new, max_count)
           ELSE IF CapReached(seen \cup {href}, max_count)
                THEN [seen |-> seen \cup {href}, new |-> new + 1, reached |-> i]
                ELSE ForHrefs(hrefs, i + 1, seen \cup {href}, new + 1, max_count)

\* faulty variant: the counter is reset in idle rounds too
NextIdleReset(idle_rounds, new) == 0

\* faulty variant: the counter is never reset
NextIdleAdd(idle_rounds, new) == idle_rounds + 1

\* if new == 0: idle_rounds += 1 / else: idle_rounds = 0
NextIdle(idle_rounds, new) == IF new = 0 THEN idle_rounds + 1 ELSE 0

\* faulty variant: the loop is left one idle round early
IdleLimitReachedEarly(idle_rounds) == idle_rounds >= idle_limit - 1

\* faulty variant: the idle limit is tested with > instead of >=
IdleLimitReachedLate(idle_rounds) == idle_rounds > idle_limit

\* if idle_rounds >= idle_limit: break
IdleLimitReached(idle_rounds) == idle_rounds >= idle_limit

\* faulty variant: status 400 passes as a success
IsUpstreamErrorAbove(status_code) == status_code > UpstreamErrorFloor

\* if r.status_code >= 400
IsUpstreamError(status_code) == status_code >= UpstreamErrorFloor

(*------------------------------ state -----------------------------------*)
\* the invocations (requests) a behaviour can hold
Invocations == { "A", "B" }

VARIABLES
  active,        \* the invocations of this behaviour
  scripted,      \* TRUE: each listing page follows a fixed script of batches
  call,          \* per invocation: the operation and its inputs
  pc,            \* per invocation: the statement it is at
  seen,          \* per invocation: the local set seen of the collector
  idle_rounds,   \* per invocation: the local idle_rounds of the collector
  html,          \* per invocation: page.content() as captured
  exc,           \* per invocation: the exception in flight
  browser,       \* per invocation: the browser it launched (0: none yet)
  sessions,      \* every browser launched so far, with its context and page
  outcome,       \* per invocation: what the caller of the route received
  pagePos,       \* per invocation: how far its scripted page has got
  hist           \* per invocation: history kept for the properties

vars == << active, scripted, call, pc, seen, idle_rounds, html, exc, browser,
           sessions, outcome, pagePos, hist >>

(*---------------------------- exceptions --------------------------------*)
NoExc == [type |-> "none", line |-> 0, status |-> 0, detail |-> "",
          cause |-> "none", causeLine |-> 0]

\* an exception of the given type raised at a source line
Raise(type, line) == [NoExc EXCEPT !.type = type, !.line = line]

\* HTTPException(status_code=502, detail=...)
HTTPException(line, detail, cause) ==
  [type |-> "HTTPException", line |-> line, status |-> BadGateway,
   detail |-> detail, cause |-> cause.type, causeLine |-> cause.line]

(*----------------------------- outcomes ---------------------------------*)
NoOutcome == [kind |-> "none", mp4_url |-> None, filename |-> None,
              count |-> 0, reels |-> <<>>, error |-> NoExc]

\* ResolveOut(reel_url=reel_url, mp4_url=mp4, filename=f"{vid_id}.mp4", title=None)
ResolveOut(mp4) ==
  [NoOutcome EXCEPT !.kind = "ResolveOut", !.mp4_url = Some(mp4),
                    !.filename = Some(Filename(mp4))]

\* ReelsOut(username=username, count=len(urls), reels=urls)
ReelsOut(urls) ==
  [NoOutcome EXCEPT !.kind = "ReelsOut", !.count = Len(urls), !.reels = urls]

\* the route raised: the caller receives the exception
Raised(e) == [NoOutcome EXCEPT !.kind = "error", !.error = e]

(*--------------------------- browser sessions ---------------------------*)
\* a browser just launched: no context and no page yet
NewSession ==
  [browser |-> "open", context |-> "none", page |-> "none", cookies |-> <<>>,
   browserCloses |-> 0, contextCloses |-> 0, users |-> {}]

\* p.chromium.launch(): every call launches a browser of its own
LaunchedId(all) == Len(all) + 1

\* context.close()
CloseContextOf(s) ==
  [s EXCEPT !.context = "closed", !.contextCloses = @ + 1]

\* browser.close()
CloseBrowserOf(s) ==
  [s EXCEPT !.browser = "closed", !.browserCloses = @ + 1]

\* faulty variant: leaving the with block ends nothing
PlaywrightStopNothing(s) == s

\* Leaving "with sync_playwright() as p": the driver stops, which ends the
\* browser and the context still open under it; closed ones are left alone.
PlaywrightStop(s) ==
  LET c == IF s.context = "open" THEN CloseContextOf(s) ELSE s
  IN  IF c.browser = "open" THEN CloseBrowserOf(c) ELSE c

(*------------------------- the page environment -------------------------*)
\* a response of the fast-path GET: a transport failure, or a status and body
TransportFailure == [ok |-> FALSE, status_code |-> 0, text |-> <<>>]
Response(status, body) == [ok |-> TRUE, status_code |-> status, text |-> body]
NoResponse == [ok |-> FALSE, status_code |-> -1, text |-> <<>>]

\* scripted listing pages: the batches of the successive harvests; the last
\* batch is what every later harvest returns
ScriptGrow ==
  << << ReelMarker \o << "a" >> >>,
     << ReelMarker \o << "a", "/" >>, ReelMarker \o << "b" >> >> >>
ScriptSame ==
  << << ReelMarker \o << "b", "/" >>, ReelMarker \o << "a", "/" >> >> >>
Scripts == { ScriptGrow, ScriptSame }

ScriptBatch(script, pos) ==
  IF script = <<>> THEN <<>> ELSE script[Min(pos, Len(script))]

FastChoices ==
  IF scripted THEN { Response(404, DocPlain), Response(200, DocVideo) }
  ELSE { TransportFailure } \cup
       { Response(st, d) : st \in Statuses, d \in Docs }
DocChoices == IF scripted THEN { DocPlain, DocVideo } ELSE Docs
CookieChoices == IF scripted THEN { Some(CookieTwo) } ELSE CookieHeaders
MaxChoices ==
  IF scripted THEN { NoMax, [some |-> TRUE, val |-> 1] } ELSE MaxCounts
ScriptChoices == IF scripted THEN Scripts ELSE { <<>> }
BatchChoices(p) ==
  IF scripted THEN { ScriptBatch(call[p].script, pagePos[p]) } ELSE Batches

(*------------------------------ history ---------------------------------*)
NoHist ==
  [fast |-> NoResponse,   \* the response the fast path got
   absorbed |-> NoExc,    \* the exception the fast path caught
   fetches |-> 0,         \* calls of _playwright_fetch_html
   harvested |-> {},      \* the reels of every batch returned so far
   zeroRun |-> 0,         \* latest consecutive rounds that showed no unseen link
                          \* (counted up to idle_limit + 1)
   unprocessed |-> <<>>,  \* hrefs of the last batch the for loop never reached
   lead |-> 0]            \* harvest rounds less scrolls (kept within -1..2)

\* A reel link without its trailing separator, if it has one: two hrefs name
\* the same reel when they agree on this.
ReelKey(href) ==
  IF EndsWith(href, Slash) THEN SubSeq(href, 1, Len(href) - 1) ELSE href

\* the reels a batch shows
ReelsOf(hrefs) ==
  { ReelKey(hrefs[i]) : i \in { k \in 1..Len(hrefs) : Contains(hrefs[k], ReelMarker) } }

(*---------------------------- initial states ----------------------------*)
NoCall == [op |-> "none", cookie_header |-> None, max_count |-> NoMax,
           script |-> <<>>]

InitWith(invs, withScripts) ==
  /\ active = invs
  /\ scripted = withScripts
  /\ call = [p \in Invocations |-> NoCall]
  /\ pc = [p \in Invocations |-> "idle"]
  /\ seen = [p \in Invocations |-> {}]
  /\ idle_rounds = [p \in Invocations |-> 0]
  /\ html = [p \in Invocations |-> <<>>]
  /\ exc = [p \in Invocations |-> NoExc]
  /\ browser = [p \in Invocations |-> 0]
  /\ sessions = <<>>
  /\ outcome = [p \in Invocations |-> NoOutcome]
  /\ pagePos = [p \in Invocations |-> 1]
  /\ hist = [p \in Invocations |-> NoHist]

\* one invocation, any page
Init == InitWith({ "A" }, FALSE)

\* all invocations at once, scripted pages
InitConc == InitWith(Invocations, TRUE)

(*------------------------------ resolve ---------------------------------*)
\* POST /resolve arrives
CallResolve(p) ==
  /\ pc[p] = "idle"
  /\ \E c \in CookieChoices :
       call' = [call EXCEPT ![p] = [NoCall EXCEPT !.op = "resolve",
                                                  !.cookie_header = c]]
  /\ pc' = [pc EXCEPT ![p] = "http_get"]
  /\ UNCHANGED << active, scripted, seen, idle_rounds, html, exc, browser,
                  sessions, outcome, pagePos, hist >>

\* faulty variant: the HTTPException of _http_get is not caught
FastPathRaising(r) ==
  IF r.ok /\ IsUpstreamError(r.status_code)
  THEN [out |-> Raised(HTTPException(51, "Upstream status", NoExc)),
        caught |-> HTTPException(51, "Upstream status", NoExc)]
  ELSE IF r.ok /\ _extract_og_video(r.text).some
            /\ IsHttpUrl(_extract_og_video(r.text).val)
  THEN [out |-> ResolveOut(_extract_og_video(r.text).val), caught |-> NoExc]
  ELSE [out |-> NoOutcome, caught |-> NoExc]

\* The try block of resolve_direct_mp4 with _http_get inlined: the outcome
\* when the block returns, NoOutcome when it falls through; and the exception
\* the except clauses caught.
FastPath(r) ==
  IF ~r.ok
  THEN [out |-> NoOutcome, caught |-> Raise("TransportError", 49)]
  ELSE IF IsUpstreamError(r.status_code)
  THEN [out |-> NoOutcome,
        caught |-> HTTPException(51, "Upstream status", NoExc)]
  ELSE LET mp4 == _extract_og_video(r.text)
       IN  IF ~mp4.some THEN [out |-> NoOutcome, caught |-> NoExc]
           ELSE IF IsHttpUrl(mp4.val)
           THEN [out |-> ResolveOut(mp4.val), caught |-> NoExc]
           ELSE [out |-> NoOutcome, caught |-> Raise("ValidationError", 147)]

\* step 1 of resolve_direct_mp4
HttpGet(p) ==
  /\ pc[p] = "http_get"
  /\ \E r \in FastChoices :
       LET f == FastPath(r)
       IN  /\ hist' = [hist EXCEPT ![p].fast = r, ![p].absorbed = f.caught]
           /\ outcome' = [outcome EXCEPT ![p] = f.out]
           /\ pc' = [pc EXCEPT ![p] = IF f.out.kind = "none" THEN "pw_enter"
                                      ELSE "done"]
  /\ UNCHANGED << active, scripted, call, seen, idle_rounds, html, exc,
                  browser, sessions, pagePos >>

\* faulty variant: a rendered page without the marker gives a result without mp4_url
ResolveTailPartial(e, html2) ==
  IF e.type # "none" THEN Raised(e)
  ELSE LET mp42 == _extract_og_video(html2)
       IN  IF mp42.some /\ IsHttpUrl(mp42.val) THEN ResolveOut(mp42.val)
           ELSE [NoOutcome EXCEPT !.kind = "ResolveOut"]

\* What resolve_direct_mp4 does once _playwright_fetch_html has returned
\* html2 or raised e (the call is outside every try).
ResolveTail(e, html2) ==
  IF e.type # "none" THEN Raised(e)
  ELSE LET mp42 == _extract_og_video(html2)
       IN  IF ~mp42.some
           THEN Raised(HTTPException(158,
                         "Could not resolve mp4_url from reel page", NoExc))
           ELSE IF IsHttpUrl(mp42.val) THEN ResolveOut(mp42.val)
           ELSE Raised(Raise("ValidationError", 160))

(*------------------------------ list_reels ------------------------------*)
\* POST /reels/{username} arrives; _playwright_collect_reels starts with
\* seen = set()
CallList(p) ==
  /\ pc[p] = "idle"
  /\ \E c \in CookieChoices, m \in MaxChoices, sc \in ScriptChoices :
       call' = [call EXCEPT ![p] = [op |-> "list", cookie_header |-> c,
                                    max_count |-> m, script |-> sc]]
  /\ seen' = [seen EXCEPT ![p] = {}]
  /\ pc' = [pc EXCEPT ![p] = "pw_enter"]
  /\ UNCHANGED << active, scripted, idle_rounds, html, exc, browser, sessions,
                  outcome, pagePos, hist >>

\* faulty variant: a failed collection returns the links collected so far
ListTailPartial(e, links) == ReelsOut(Sorted(links))

\* What list_reels does once _playwright_collect_reels has returned
\* sorted(seen) or raised e.
ListTail(e, links) ==
  IF e.type # "none"
  THEN Raised(HTTPException(167, "Failed to collect reels", e))
  ELSE ReelsOut(Sorted(links))

(*--------------------------- the browser engine -------------------------*)
\* the source line of the engine call an invocation is at
LineOf(operation, at) ==
  IF operation = "resolve"
  THEN CASE at = "launch" -> 56 [] at = "new_context" -> 57
         [] at = "add_cookies" -> 69 [] at = "new_page" -> 71
         [] at = "goto" -> 72 [] at = "settle" -> 74 [] at = "content" -> 75
         [] OTHER -> 0
  ELSE CASE at = "launch" -> 84 [] at = "new_context" -> 85
         [] at = "add_cookies" -> 95 [] at = "new_page" -> 97
         [] at = "goto" -> 98 [] at = "settle" -> 99 [] at = "harvest" -> 103
         [] at = "scroll" -> 125 [] at = "scroll_wait" -> 126
         [] OTHER -> 0

\* the session after invocation p has used it
Use(s, p) == [s EXCEPT !.users = @ \cup {p}]

\* with sync_playwright() as p:
PlaywrightEnter(p) ==
  /\ pc[p] = "pw_enter"
  /\ pc' = [pc EXCEPT ![p] = "launch"]
  /\ hist' = [hist EXCEPT ![p].fetches =
                IF call[p].op = "resolve" THEN @ + 1 ELSE @]
  /\ UNCHANGED << active, scripted, call, seen, idle_rounds, html, exc,
                  browser, sessions, outcome, pagePos >>

\* browser = p.chromium.launch(headless=True)
Launch(p) ==
  /\ pc[p] = "launch"
  /\ LET id == LaunchedId(sessions)
     IN  /\ browser' = [browser EXCEPT ![p] = id]
         /\ sessions' = IF id > Len(sessions)
                        THEN Append(sessions, Use(NewSession, p))
                        ELSE [sessions EXCEPT ![id] = Use(@, p)]
  /\ pc' = [pc EXCEPT ![p] = "new_context"]
  /\ UNCHANGED << active, scripted, call, seen, idle_rounds, html, exc,
                  outcome, pagePos, hist >>

\* the session invocation p holds
Session(p) == sessions[browser[p]]

\* a call on the session of p that leaves it as after and moves p to next
EngineStep(p, at, next, after) ==
  /\ pc[p] = at
  /\ sessions' = [sessions EXCEPT ![browser[p]] = Use(after, p)]
  /\ pc' = [pc EXCEPT ![p] = next]

\* faulty variant: the records are never installed
NewContextOnly(p) ==
  /\ EngineStep(p, "new_context", "new_page",
                [Session(p) EXCEPT !.context = "open"])
  /\ UNCHANGED << active, scripted, call, seen, idle_rounds, html, exc,
                  browser, outcome, pagePos, hist >>

\* context = browser.new_context(user_agent=UA), then the cookie loop
NewContext(p) ==
  /\ EngineStep(p, "new_context",
                IF ParseCookies(call[p].cookie_header) # <<>>
                THEN "add_cookies" ELSE "new_page",
                [Session(p) EXCEPT !.context = "open"])
  /\ UNCHANGED << active, scripted, call, seen, idle_rounds, html, exc,
                  browser, outcome, pagePos, hist >>

\* context.add_cookies(cookies)
AddCookies(p) ==
  /\ EngineStep(p, "add_cookies", "new_page",
                [Session(p) EXCEPT
                   !.cookies = ParseCookies(call[p].cookie_header)])
  /\ UNCHANGED << active, scripted, call, seen, idle_rounds, html, exc,
                  browser, outcome, pagePos, hist >>

\* page = context.new_page()
NewPage(p) ==
  /\ EngineStep(p, "new_page", "goto", [Session(p) EXCEPT !.page = "blank"])
  /\ UNCHANGED << active, scripted, call, seen, idle_rounds, html, exc,
                  browser, outcome, pagePos, hist >>

\* page.goto(url, wait_until="domcontentloaded", timeout=60000)
Goto(p) ==
  /\ EngineStep(p, "goto", "settle", [Session(p) EXCEPT !.page = "loaded"])
  /\ UNCHANGED << active, scripted, call, seen, idle_rounds, html, exc,
                  browser, outcome, pagePos, hist >>

\* page.wait_for_timeout(1500), or (1200) followed by idle_rounds = 0
Settle(p) ==
  /\ EngineStep(p, "settle",
                IF call[p].op = "resolve" THEN "content" ELSE "harvest",
                [Session(p) EXCEPT !.page = "settled"])
  /\ idle_rounds' = [idle_rounds EXCEPT ![p] =
                       IF call[p].op = "list" THEN 0 ELSE @]
  /\ UNCHANGED << active, scripted, call, seen, html, exc, browser, outcome,
                  pagePos, hist >>

\* html = page.content()
Content(p) ==
  /\ EngineStep(p, "content", "context_close", Session(p))
  /\ \E d \in DocChoices : html' = [html EXCEPT ![p] = d]
  /\ UNCHANGED << active, scripted, call, seen, idle_rounds, exc, browser,
                  outcome, pagePos, hist >>

(*--------------------------- the collector loop -------------------------*)
\* faulty variant: one set shared by all invocations
SeenBeforeShared(all, p) == UNION { all[q] : q \in Invocations }

\* the set the round of invocation p tests and extends: its own local seen
SeenBefore(all, p) == all[p]

\* One pass of the while loop up to its next engine call: the harvest query,
\* the for loop, the cap test, the idle count and the idle test.
Harvest(p) ==
  /\ \E hrefs \in BatchChoices(p) :
       LET max_count == call[p].max_count
           before == SeenBefore(seen, p)
           r == ForHrefs(hrefs, 1, before, 0, max_count)
           capped == CapReached(r.seen, max_count)
           idle == NextIdle(idle_rounds[p], r.new)
       IN  /\ EngineStep(p, "harvest",
                         IF capped \/ IdleLimitReached(idle)
                         THEN "context_close" ELSE "scroll",
                         Session(p))
           /\ seen' = [seen EXCEPT ![p] = r.seen]
           /\ idle_rounds' = [idle_rounds EXCEPT ![p] = IF capped THEN @ ELSE idle]
           /\ hist' = [hist EXCEPT
                 ![p].harvested = @ \cup ReelsOf(hrefs),
                 ![p].zeroRun = IF ReelsOf(hrefs) \subseteq hist[p].harvested
                                THEN Min(@ + 1, idle_limit + 1) ELSE 0,
                 ![p].unprocessed = SubSeq(hrefs, r.reached + 1, Len(hrefs)),
                 ![p].lead = Min(@ + 1, 2)]
  /\ pagePos' = [pagePos EXCEPT ![p] =
                   IF @ < Len(call[p].script) THEN @ + 1 ELSE @]
  /\ UNCHANGED << active, scripted, call, html, exc, browser, outcome >>

\* page.evaluate("window.scrollBy(0, document.body.scrollHeight);")
Scroll(p) ==
  /\ EngineStep(p, "scroll", "scroll_wait", Session(p))
  /\ hist' = [hist EXCEPT ![p].lead = IF @ > -1 THEN @ - 1 ELSE @]
  /\ UNCHANGED << active, scripted, call, seen, idle_rounds, html, exc,
                  browser, outcome, pagePos >>

\* faulty variant: after the wait the page is scrolled again
ScrollWaitThenScroll(p) ==
  /\ EngineStep(p, "scroll_wait", "scroll", Session(p))
  /\ UNCHANGED << active, scripted, call, seen, idle_rounds, html, exc,
                  browser, outcome, pagePos, hist >>

\* page.wait_for_timeout(1200) at the end of the loop body
ScrollWait(p) ==
  /\ EngineStep(p, "scroll_wait", "harvest", Session(p))
  /\ UNCHANGED << active, scripted, call, seen, idle_rounds, html, exc,
                  browser, outcome, pagePos, hist >>

(*------------------------------ leaving ---------------------------------*)
\* context.close()
ContextClose(p) ==
  /\ EngineStep(p, "context_close", "browser_close", CloseContextOf(Session(p)))
  /\ UNCHANGED << active, scripted, call, seen, idle_rounds, html, exc,
                  browser, outcome, pagePos, hist >>

\* browser.close()
BrowserClose(p) ==
  /\ EngineStep(p, "browser_close", "pw_exit", CloseBrowserOf(Session(p)))
  /\ UNCHANGED << active, scripted, call, seen, idle_rounds, html, exc,
                  browser, outcome, pagePos, hist >>

\* the engine calls that can raise (a timeout, a crashed page, ...); the two
\* close calls and the start of the driver are taken to succeed
EngineCalls ==
  { "launch", "new_context", "add_cookies", "new_page", "goto", "settle",
    "content", "harvest", "scroll", "scroll_wait" }

\* An engine call raises: the rest of the with block is skipped.
EngineFail(p) ==
  /\ pc[p] \in EngineCalls
  /\ exc' = [exc EXCEPT ![p] = Raise("PlaywrightError",
                                     LineOf(call[p].op, pc[p]))]
  /\ sessions' = IF browser[p] = 0 THEN sessions
                 ELSE [sessions EXCEPT ![browser[p]] = Use(@, p)]
  /\ pc' = [pc EXCEPT ![p] = "pw_exit"]
  /\ UNCHANGED << active, scripted, call, seen, idle_rounds, html, browser,
                  outcome, pagePos, hist >>

\* The with block is left, normally or by the exception; the function
\* returns or raises, and the route finishes with what it got.
PlaywrightExit(p) ==
  /\ pc[p] = "pw_exit"
  /\ sessions' = IF browser[p] = 0 THEN sessions
                 ELSE [sessions EXCEPT ![browser[p]] = PlaywrightStop(@)]
  /\ outcome' = [outcome EXCEPT ![p] =
                   IF call[p].op = "resolve" THEN ResolveTail(exc[p], html[p])
                   ELSE ListTail(exc[p], seen[p])]
  /\ pc' = [pc EXCEPT ![p] = "done"]
  /\ UNCHANGED << active, scripted, call, seen, idle_rounds, html, exc,
                  browser, pagePos, hist >>

(*---------------------------- specifications ----------------------------*)
Next ==
  \/ \E p \in active : CallResolve(p)
  \/ \E p \in active : HttpGet(p)
  \/ \E p \in active : CallList(p)
  \/ \E p \in active : PlaywrightEnter(p)
  \/ \E p \in active : Launch(p)
  \/ \E p \in active : NewContext(p)
  \/ \E p \in active : AddCookies(p)
  \/ \E p \in active : NewPage(p)
  \/ \E p \in active : Goto(p)
  \/ \E p \in active : Settle(p)
  \/ \E p \in active : Content(p)
  \/ \E p \in active : Harvest(p)
  \/ \E p \in active : Scroll(p)
  \/ \E p \in active : ScrollWait(p)
  \/ \E p \in active : ContextClose(p)
  \/ \E p \in active : BrowserClose(p)
  \/ \E p \in active : EngineFail(p)
  \/ \E p \in active : PlaywrightExit(p)

\* A request of either route with any cookie_header of CookieStrings (the
\* listing with max = 2 on a scripted page).
CallAnyCookie(p) ==
  /\ pc[p] = "idle"
  /\ \E c \in CookieStrings, operation \in { "resolve", "list" } :
       /\ call' = [call EXCEPT ![p] =
                     [op |-> operation, cookie_header |-> c,
                      max_count |-> IF operation = "list"
                                    THEN [some |-> TRUE, val |-> 2] ELSE NoMax,
                      script |-> IF operation = "list" THEN ScriptGrow ELSE <<>>]]
       /\ pc' = [pc EXCEPT ![p] = IF operation = "list" THEN "pw_enter"
                                  ELSE "http_get"]
  /\ seen' = [seen EXCEPT ![p] = {}]
  /\ UNCHANGED << active, scripted, idle_rounds, html, exc, browser, sessions,
                  outcome, pagePos, hist >>

\* one invocation with any cookie header, scripted pages
InitCookies == InitWith({ "A" }, TRUE)

NextCookies ==
  \/ \E p \in active : CallAnyCookie(p)
  \/ \E p \in active : HttpGet(p)
  \/ \E p \in active : PlaywrightEnter(p)
  \/ \E p \in active : Launch(p)
  \/ \E p \in active : NewContext(p)
  \/ \E p \in active : AddCookies(p)
  \/ \E p \in active : NewPage(p)
  \/ \E p \in active : Goto(p)
  \/ \E p \in active : Settle(p)
  \/ \E p \in active : Content(p)
  \/ \E p \in active : Harvest(p)
  \/ \E p \in active : Scroll(p)
  \/ \E p \in active : ScrollWait(p)
  \/ \E p \in active : ContextClose(p)
  \/ \E p \in active : BrowserClose(p)
  \/ \E p \in active : EngineFail(p)
  \/ \E p \in active : PlaywrightExit(p)

\* one invocation against a page that may answer anything
Spec == Init /\ [][Next]_vars

\* interleaved invocations against scripted pages
SpecConc == InitConc /\ [][Next]_vars

\* a step of _playwright_collect_reels or of the end of list_reels
CollectStep(p) ==
  /\ call[p].op = "list"
  /\ \/ PlaywrightEnter(p) \/ Launch(p) \/ NewContext(p) \/ AddCookies(p)
     \/ NewPage(p) \/ Goto(p) \/ Settle(p) \/ Harvest(p) \/ Scroll(p)
     \/ ScrollWait(p) \/ ContextClose(p) \/ BrowserClose(p) \/ EngineFail(p)
     \/ PlaywrightExit(p)

\* requests of /reels/{username} only
NextCollect ==
  \/ \E p \in active : CallList(p)
  \/ \E p \in active : PlaywrightEnter(p)
  \/ \E p \in active : Launch(p)
  \/ \E p \in active : NewContext(p)
  \/ \E p \in active : AddCookies(p)
  \/ \E p \in active : NewPage(p)
  \/ \E p \in active : Goto(p)
  \/ \E p \in active : Settle(p)
  \/ \E p \in active : Harvest(p)
  \/ \E p \in active : Scroll(p)
  \/ \E p \in active : ScrollWait(p)
  \/ \E p \in active : ContextClose(p)
  \/ \E p \in active : BrowserClose(p)
  \/ \E p \in active : EngineFail(p)
  \/ \E p \in active : PlaywrightExit(p)

\* One collection, where a collection that can take a step takes one: every
\* engine call returns or raises (navigation is bounded by timeout=45000, the
\* waits by wait_for_timeout) and the statements between the calls run to
\* their end
FairSpec ==
  /\ Init
  /\ [][NextCollect]_vars
  /\ \A p \in Invocations : WF_vars(CollectStep(p))

\* one invocation, every cookie header
SpecCookies == InitCookies /\ [][NextCookies]_vars

(*------------------------------ properties ------------------------------*)
Running == { p \in active : call[p].op # "none" }
Resolving == { p \in Running : call[p].op = "resolve" }
Listing == { p \in Running : call[p].op = "list" }
Launched == { p \in Running : browser[p] # 0 }

\* a browser, with the context it may hold, that has been closed exactly once
ClosedOnce(s) ==
  /\ s.browser = "closed" /\ s.browserCloses = 1
  /\ \/ s.context = "none" /\ s.contextCloses = 0
     \/ s.context = "closed" /\ s.contextCloses = 1

\* C1: on every exit path of _playwright_fetch_html and of
\* _playwright_collect_reels (return, or an engine call that raised) the
\* browser and the context the call launched have been closed exactly once
\* when the call is over, and neither is ever closed twice.
C1_SessionClosedExactlyOnce ==
  \A p \in Launched :
    /\ Session(p).browserCloses <= 1
    /\ Session(p).contextCloses <= 1
    /\ pc[p] = "done" => ClosedOnce(Session(p))

\* a navigation that failed, after which the session is found closed once
C1_Witness ==
  \E p \in Launched :
    /\ pc[p] = "done"
    /\ exc[p].type = "PlaywrightError" /\ exc[p].line \in { 72, 98 }
    /\ Session(p).context = "closed" /\ Session(p).contextCloses = 1
    /\ Session(p).browser = "closed" /\ Session(p).browserCloses = 1

\* C2: a finished resolve has called _playwright_fetch_html exactly once
\* when the fast-path status was >= 400, exactly once when the fast-path body
\* held no og:video URL, and never (no browser launched at all) when the
\* fast path succeeded and the body held an og:video URL.
C2_FallbackInvokedOnceOrNever ==
  \A p \in Resolving :
    LET r == hist[p].fast
        found == _extract_og_video(r.text)
    IN  /\ hist[p].fetches <= 1
        /\ pc[p] = "done" =>
             /\ r.ok /\ r.status_code >= 400 => hist[p].fetches = 1
             /\ r.ok /\ r.status_code < 400 /\ ~found.some => hist[p].fetches = 1
             /\ r.ok /\ r.status_code < 400 /\ found.some /\ IsHttpUrl(found.val) =>
                  /\ hist[p].fetches = 0
                  /\ browser[p] = 0
                  /\ outcome[p].kind = "ResolveOut"

\* a resolve whose fast path got status 400 for a body that holds the URL
C2_Witness ==
  \E p \in Resolving :
    /\ pc[p] = "done"
    /\ hist[p].fast.ok /\ hist[p].fast.status_code = 400
    /\ _extract_og_video(hist[p].fast.text).some
    /\ hist[p].fetches = 1

\* C3: with a maximum configured (max >= 1) the running set never exceeds
\* max; the loop never scrolls or harvests again once the set holds max
\* links; and once max or more reels have been shown the collection ends with
\* exactly max results, in the round that reached max, the hrefs after the
\* max-th new link being left unprocessed.
C3_CapTermination ==
  \A p \in Listing :
    LET m == call[p].max_count
        n == Cardinality(seen[p])
    IN  m.some /\ m.val >= 1 =>
          /\ n <= m.val
          /\ pc[p] \in { "scroll", "scroll_wait", "harvest" } => n < m.val
          /\ hist[p].unprocessed # <<>> => n = m.val
          /\ Cardinality(hist[p].harvested) >= m.val /\ exc[p].type = "none" =>
               /\ n = m.val
               /\ pc[p] \in { "context_close", "browser_close", "pw_exit", "done" }
               /\ pc[p] = "done" =>
                    /\ outcome[p].kind = "ReelsOut"
                    /\ Len(outcome[p].reels) = m.val

\* max = 1, two reels shown in the first batch, the second left unprocessed
C3_Witness ==
  \E p \in Listing :
    /\ pc[p] = "done"
    /\ call[p].max_count = [some |-> TRUE, val |-> 1]
    /\ Cardinality(hist[p].harvested) > 1
    /\ hist[p].unprocessed # <<>>
    /\ outcome[p].kind = "ReelsOut" /\ outcome[p].count = 1

\* the statements after the while loop of the collector
AfterLoop == { "context_close", "browser_close", "pw_exit", "done" }

\* C4: when 15 consecutive harvest rounds have shown no reel that was not
\* shown before, the collector has left its loop at the 15th of them, without
\* error, and returns the links collected so far, whether or not max was
\* reached; there is never a 16th such round.
C4_IdleTermination ==
  \A p \in Listing :
    /\ hist[p].zeroRun <= 15
    /\ hist[p].zeroRun = 15 =>
         /\ pc[p] \in AfterLoop
         /\ exc[p].type = "none"
         /\ pc[p] = "done" =>
              /\ outcome[p].kind = "ReelsOut"
              /\ outcome[p].reels = Sorted(seen[p])

\* 15 idle rounds ended a collection whose max was not reached
C4_Witness ==
  \E p \in Listing :
    /\ pc[p] = "done"
    /\ hist[p].zeroRun = 15
    /\ call[p].max_count.some
    /\ 0 < Cardinality(seen[p])
    /\ Cardinality(seen[p]) < call[p].max_count.val
    /\ outcome[p].kind = "ReelsOut"
    /\ outcome[p].count = Cardinality(seen[p])

\* C5: the list a collection returns is strictly increasing in the order of
\* str (so sorted and free of duplicates), each of its links ends with the
\* separator, its length is the number of distinct reels harvested (hrefs
\* that differ by the trailing separator only being one reel), capped at max
\* when max is set (not None, not 0), and count is that length.
C5_SortedDeduplicatedCounted ==
  \A p \in Listing :
    pc[p] = "done" /\ outcome[p].kind = "ReelsOut" =>
      LET reels == outcome[p].reels
          m == call[p].max_count
          shown == Cardinality(hist[p].harvested)
      IN  /\ \A i \in 1..Len(reels) : \A j \in (i + 1)..Len(reels) :
                StrLess(reels[i], reels[j])
          /\ \A i \in 1..Len(reels) : reels[i][Len(reels[i])] = "/"
          /\ { ReelKey(reels[i]) : i \in 1..Len(reels) } \subseteq hist[p].harvested
          /\ Len(reels) = IF m.some /\ m.val # 0 THEN Min(shown, m.val) ELSE shown
          /\ outcome[p].count = Len(reels)

\* a returned list of two links or more, one of them harvested in both forms
C5_Witness ==
  \E p \in Listing :
    /\ pc[p] = "done" /\ outcome[p].kind = "ReelsOut"
    /\ outcome[p].count >= 2
    /\ outcome[p].count = Cardinality(hist[p].harvested)
    /\ ReelMarker \o << IdChars[1] >> \in hist[p].harvested

\* C6: a finished resolve is either a ResolveOut whose mp4_url is populated
\* or an error, never a ResolveOut without mp4_url; and when the fast path
\* found no URL and the rendered document holds none either, it is the
\* HTTPException 502 "Could not resolve mp4_url from reel page".
C6_ResultOrError ==
  \A p \in Resolving :
    pc[p] = "done" =>
      /\ \/ /\ outcome[p].kind = "ResolveOut"
            /\ outcome[p].mp4_url.some /\ outcome[p].mp4_url.val # <<>>
            /\ outcome[p].error = NoExc
         \/ /\ outcome[p].kind = "error"
            /\ outcome[p].error.type # "none"
            /\ ~outcome[p].mp4_url.some
      /\ ( /\ ~_extract_og_video(hist[p].fast.text).some
           /\ hist[p].fetches = 1 /\ exc[p].type = "none"
           /\ ~_extract_og_video(html[p]).some )
         => /\ outcome[p].kind = "error"
            /\ outcome[p].error.type = "HTTPException"
            /\ outcome[p].error.status = 502
            /\ outcome[p].error.detail = "Could not resolve mp4_url from reel page"

\* the fast path fetched a body without the marker and so did the browser
C6_Witness ==
  \E p \in Resolving :
    /\ pc[p] = "done"
    /\ hist[p].fast.ok /\ hist[p].fast.status_code = 200
    /\ ~_extract_og_video(hist[p].fast.text).some
    /\ hist[p].fetches = 1 /\ exc[p].type = "none"
    /\ ~_extract_og_video(html[p]).some
    /\ outcome[p].error.line = 158

\* C7: when an engine call of _playwright_fetch_html raises during the
\* fallback of resolve, the caller of resolve receives an HTTPException (the
\* kind of "Could not resolve mp4_url"), not the engine's own exception.
C7_FallbackFailureIsHTTPException ==
  \A p \in Resolving :
    pc[p] = "done" /\ exc[p].type = "PlaywrightError" =>
      /\ outcome[p].kind = "error"
      /\ outcome[p].error.type = "HTTPException"

\* C8: once an engine call of the collector has raised, no further harvest,
\* scroll or close runs, the set is not extended, and list_reels ends with an
\* HTTPException 502 "Failed to collect reels" that names the exception
\* raised, returning no list.
C8_CollectionAborts ==
  \A p \in Listing :
    exc[p].type # "none" =>
      /\ pc[p] \in { "pw_exit", "done" }
      /\ pc[p] = "done" =>
           /\ outcome[p].kind = "error"
           /\ outcome[p].reels = <<>> /\ outcome[p].count = 0
           /\ outcome[p].error.type = "HTTPException"
           /\ outcome[p].error.status = 502
           /\ outcome[p].error.detail = "Failed to collect reels"
           /\ outcome[p].error.cause = exc[p].type
           /\ outcome[p].error.causeLine = exc[p].line

\* a scroll failed after links had been collected
C8_Witness ==
  \E p \in Listing :
    /\ pc[p] = "done"
    /\ exc[p].line = 125
    /\ seen[p] # {}
    /\ outcome[p].kind = "error" /\ outcome[p].error.causeLine = 125

\* the fast path of a resolve failed: status >= 400, transport failure, or a
\* failure while its result was handled
FastPathFailed(p) ==
  LET r == hist[p].fast
  IN  /\ pc[p] # "idle" /\ pc[p] # "http_get"
      /\ \/ ~r.ok
         \/ r.status_code >= 400
         \/ /\ _extract_og_video(r.text).some
            /\ ~IsHttpUrl(_extract_og_video(r.text).val)

\* the source lines at which the fast path raises
FastPathLines == { 49, 51, 147 }

\* C9: every failure of the fast path is caught and followed by the
\* fallback: resolve does not end before _playwright_fetch_html has been
\* called, and the error the caller receives, if any, is not the one the
\* fast path raised.
C9_FastPathAbsorbed ==
  \A p \in Resolving :
    FastPathFailed(p) =>
      /\ hist[p].absorbed.type # "none"
      /\ hist[p].fetches = 1 \/ pc[p] = "pw_enter"
      /\ pc[p] = "done" /\ outcome[p].kind = "error" =>
           /\ outcome[p].error # hist[p].absorbed
           /\ outcome[p].error.line \notin FastPathLines

\* status 404 was absorbed and the error received is the fallback's
C9_Witness ==
  \E p \in Resolving :
    /\ pc[p] = "done"
    /\ hist[p].fast.ok /\ hist[p].fast.status_code = 404
    /\ hist[p].absorbed.type = "HTTPException" /\ hist[p].absorbed.line = 51
    /\ hist[p].fetches = 1
    /\ outcome[p].kind = "error" /\ outcome[p].error.type = "HTTPException"
    /\ outcome[p].error.line = 158

\* The set a collection run on its own builds from a scripted page: the
\* rounds of the while loop from the batch at pos on.
RECURSIVE SeenAlone(_, _, _, _, _)
SeenAlone(script, pos, own, idle, max_count) ==
  LET r == ForHrefs(ScriptBatch(script, pos), 1, own, 0, max_count)
      idle2 == IF r.new = 0 THEN idle + 1 ELSE 0
  IN  IF CapReached(r.seen, max_count) \/ idle2 >= 15 THEN r.seen
      ELSE SeenAlone(script, Min(pos + 1, Len(script)), r.seen, idle2, max_count)

\* what list_reels returns for a scripted page when no engine call fails
ReelsAlone(c) == ReelsOut(Sorted(SeenAlone(c.script, 1, {}, 0, c.max_count)))

\* the links a scripted page ever shows
ScriptLinks(script) ==
  UNION { { Canonical(script[i][j]) : j \in 1..Len(script[i]) } : i \in 1..Len(script) }

\* C10: interleaved invocations are independent: no two hold the same
\* browser, no browser is used by more than one invocation, each launched
\* browser is closed exactly once by the end of its invocation, each set seen
\* holds links of its own page only, a collection that ends without error
\* returns what it returns when run alone on the same page, and a resolve
\* returns what its own two responses give.
C10_InvocationsIndependent ==
  /\ \A p \in Launched : \A q \in Launched :
       p # q => browser[p] # browser[q]
  /\ \A i \in 1..Len(sessions) : Cardinality(sessions[i].users) <= 1
  /\ \A p \in Launched :
       /\ Session(p).users = {p}
       /\ Session(p).browserCloses <= 1 /\ Session(p).contextCloses <= 1
       /\ pc[p] = "done" => ClosedOnce(Session(p))
  /\ \A p \in Listing :
       /\ seen[p] \subseteq ScriptLinks(call[p].script)
       /\ pc[p] = "done" =>
            IF exc[p].type = "none" THEN outcome[p] = ReelsAlone(call[p])
            ELSE outcome[p].kind = "error" /\ outcome[p].reels = <<>>
  /\ \A p \in Resolving :
       pc[p] = "done" =>
         outcome[p] = IF FastPath(hist[p].fast).out.kind # "none"
                      THEN FastPath(hist[p].fast).out
                      ELSE ResolveTail(exc[p], html[p])

\* two collections of different pages that show a common reel ran
\* interleaved: q launched its browser first and is still in its loop, holding
\* the common reel, when p, which launched second, has returned it
C10_Witness ==
  \E p \in Listing : \E q \in Listing :
    /\ p # q
    /\ browser[q] = 1 /\ browser[p] = 2
    /\ call[p].script # call[q].script
    /\ pc[q] = "scroll" /\ pc[p] = "done"
    /\ outcome[p].kind = "ReelsOut"
    /\ seen[p] \cap seen[q] # {}
    /\ Session(p).browser = "closed" /\ Session(q).browser = "open"

\* the part of a URL before its query string
BeforeQuery(url) == Split1(url, "?")[1]

\* the last path segment of a URL, its query string stripped
LastPathSegment(url) ==
  LET segments == Split(BeforeQuery(url), "/")
  IN  segments[Len(segments)]

\* C11: the filename of a ResolveOut, on the fast path and on the rendered
\* path, is the last path segment of mp4_url with the query string stripped
\* ("abc123.mp4" for "https://x/abc123.mp4?sig=zzz").
C11_FilenameIsLastSegment ==
  \A p \in Resolving :
    pc[p] = "done" /\ outcome[p].kind = "ResolveOut" =>
      /\ outcome[p].filename.some
      /\ outcome[p].filename.val = LastPathSegment(outcome[p].mp4_url.val)

\* the positions of the ';' of a header, and its k-th one
SemiPositions(h) == { i \in 1..Len(h) : h[i] = ";" }
NthSemi(h, k) ==
  CHOOSE i \in SemiPositions(h) :
    Cardinality({ j \in SemiPositions(h) : j < i }) = k - 1

\* the ';'-delimited fragments of a header, first to last
FragmentCount(h) == Cardinality(SemiPositions(h)) + 1
Fragment(h, k) ==
  SubSeq(h, IF k = 1 THEN 1 ELSE NthSemi(h, k - 1) + 1,
            IF k = FragmentCount(h) THEN Len(h) ELSE NthSemi(h, k) - 1)

\* a text without its leading and trailing blanks
Trimmed(s) ==
  LET inked == { i \in 1..Len(s) : s[i] # " " }
  IN  IF inked = {} THEN <<>>
      ELSE SubSeq(s, CHOOSE i \in inked : \A j \in inked : i <= j,
                     CHOOSE i \in inked : \A j \in inked : i >= j)

\* the fragments that hold an '=', and the n-th of them
KeptFragments(h) ==
  { k \in 1..FragmentCount(h) : \E i \in 1..Len(Fragment(h, k)) : Fragment(h, k)[i] = "=" }
NthKept(h, n) ==
  CHOOSE k \in KeptFragments(h) :
    Cardinality({ j \in KeptFragments(h) : j < k }) = n - 1

\* the record of a fragment that holds an '=': split at its first '='
RecordOf(f) ==
  LET eq == CHOOSE i \in 1..Len(f) : f[i] = "=" /\ \A j \in 1..(i - 1) : f[j] # "="
  IN  [name |-> Trimmed(SubSeq(f, 1, eq - 1)),
       value |-> Trimmed(SubSeq(f, eq + 1, Len(f))),
       domain |-> ".instagram.com", path |-> "/"]

\* the invocations whose cookie step is over (the page has been created)
PastCookies == { p \in Launched : Session(p).page # "none" }

\* C12: the translation of the cookie header never raises and installs, for
\* every header, one record per ';'-delimited fragment that holds an '=', in
\* fragment order and so at most as many as there are fragments: name and
\* value are the trimmed texts before and after the first '=' of the
\* fragment, domain and path are fixed; "a=1; b=2=x" gives a -> "1" and
\* b -> "2=x"; None gives no record.
C12_CookieTranslation ==
  /\ \A p \in Running : exc[p].type \in { "none", "PlaywrightError" }
  /\ \A p \in PastCookies :
       LET header == call[p].cookie_header
           records == Session(p).cookies
       IN  IF ~header.some THEN records = <<>>
           ELSE /\ Len(records) <= FragmentCount(header.val)
                /\ Len(records) = Cardinality(KeptFragments(header.val))
                /\ \A n \in 1..Len(records) :
                     records[n] = RecordOf(Fragment(header.val, NthKept(header.val, n)))
                /\ header.val = CookieTwo =>
                     records = << [name |-> << "a" >>, value |-> << "1" >>,
                                   domain |-> ".instagram.com", path |-> "/"],
                                  [name |-> << "b" >>, value |-> << "2", "=", "x" >>,
                                   domain |-> ".instagram.com", path |-> "/"] >>

\* the header "a=1; b=2=x" has been installed as two records
C12_Witness ==
  \E p \in PastCookies :
    /\ call[p].cookie_header = Some(CookieTwo)
    /\ Len(Session(p).cookies) = 2
    /\ Session(p).cookies[2].value = << "2", "=", "x" >>

\* C13: under fair progress every collection comes to an end (the page of
\* the model shows finitely many reels, so it stops yielding unseen links
\* whether or not max is set), and a collection leaves its loop without error
\* only with max reached or with idle_rounds at the idle limit of 15.
C13_CollectorTerminates ==
  /\ [](\A p \in Listing :
          pc[p] \in AfterLoop /\ exc[p].type = "none" =>
            \/ /\ call[p].max_count.some /\ call[p].max_count.val >= 1
               /\ Cardinality(seen[p]) >= call[p].max_count.val
            \/ idle_rounds[p] = 15)
  /\ (\E p \in Invocations : call[p].op = "list" /\ pc[p] # "done")
       ~> (\A p \in Invocations : call[p].op = "list" => pc[p] = "done")

\* a collection without max that came to its end by the idle limit
C13_Witness ==
  \E p \in Listing :
    /\ pc[p] = "done" /\ outcome[p].kind = "ReelsOut"
    /\ ~call[p].max_count.some
    /\ idle_rounds[p] = 15
    /\ outcome[p].count >= 1

\* the running set of p holds at least max links, max being 1 or more
MaxReached(p) ==
  /\ call[p].max_count.some
  /\ call[p].max_count.val >= 1
  /\ Cardinality(seen[p]) >= call[p].max_count.val

\* C14 as stated: in every state of a collection idle_rounds is the number of
\* the latest consecutive rounds that added no link, and lies in 0..15.
C14_IdleCounterAlways ==
  \A p \in Listing :
    /\ idle_rounds[p] \in 0..15
    /\ idle_rounds[p] = hist[p].zeroRun

\* C14, amended: idle_rounds lies in 0..15 in every state; as long as max is
\* not reached it is the number of the latest consecutive rounds that added
\* no link (0 after a round that added one, one more after a round whose
\* links were all known); the round that reaches max leaves it as it was.
C14_IdleCounter ==
  /\ [](\A p \in Listing :
          /\ idle_rounds[p] \in 0..15
          /\ ~MaxReached(p) => idle_rounds[p] = hist[p].zeroRun)
  /\ [][\A p \in Listing :
          pc[p] = "harvest" /\ MaxReached(p)' =>
            idle_rounds'[p] = idle_rounds[p]]_vars

\* two idle rounds in a row after a link was found, max not reached
C14_Witness ==
  \E p \in Listing :
    /\ pc[p] = "scroll"
    /\ seen[p] # {}
    /\ ~MaxReached(p)
    /\ idle_rounds[p] = 2
    /\ hist[p].zeroRun = 2

\* C15: a collection that is past its loop without exception, or has returned
\* its list, while max was absent or not reached, has had no link added in any
\* of its latest 15 rounds (a round that added a link would have restarted
\* the count), and its counter stands at 15.
C15_NoPrematureIdleExit ==
  \A p \in Listing :
    /\ pc[p] \in AfterLoop
    /\ exc[p].type = "none"
    /\ ~MaxReached(p)
    => /\ hist[p].zeroRun >= 15
       /\ idle_rounds[p] = 15
       /\ pc[p] = "done" => outcome[p].kind = "ReelsOut"

\* the loop was just left with fewer links than max
C15_Witness ==
  \E p \in Listing :
    /\ pc[p] = "context_close"
    /\ exc[p].type = "none"
    /\ call[p].max_count.some
    /\ seen[p] # {}
    /\ Cardinality(seen[p]) < call[p].max_count.val
    /\ hist[p].zeroRun >= 15

\* the rendered document of p was captured, or a batch was harvested, in
\* this step
Captured(p) ==
  \/ html'[p] # html[p]
  \/ hist'[p].harvested # hist[p].harvested
  \/ hist'[p].zeroRun # hist[p].zeroRun

\* C16: in _playwright_fetch_html and in _playwright_collect_reels alike, when
\* the cookie header yields at least one record, the records are in the
\* browser context before the navigation starts (the page is loaded only
\* from a blank page of a context that holds them, and holds them ever after),
\* the settle wait follows the navigation, and the document is captured, or a
\* batch harvested, only on a page that has been navigated and has settled.
C16_CookiesThenNavigateThenCapture ==
  /\ [](\A p \in Launched :
          /\ Session(p).page \in { "loaded", "settled" } =>
               Session(p).cookies = ParseCookies(call[p].cookie_header)
          /\ html[p] # <<>> \/ hist[p].harvested # {} \/ hist[p].zeroRun > 0 =>
               Session(p).page = "settled")
  /\ [][\A p \in Launched :
          browser'[p] = browser[p] =>
            /\ Session(p)'.page = "loaded" /\ Session(p).page # "loaded" =>
                 /\ Session(p).page = "blank"
                 /\ Session(p).cookies = ParseCookies(call[p].cookie_header)
            /\ Session(p)'.page = "settled" /\ Session(p).page # "settled" =>
                 Session(p).page = "loaded"
            /\ Captured(p) => Session(p).page = "settled"]_vars

\* the rendered document was captured in a context holding two records
C16_Witness ==
  \E p \in Resolving \cap Launched :
    /\ html[p] # <<>>
    /\ Len(ParseCookies(call[p].cookie_header)) = 2
    /\ Session(p).cookies = ParseCookies(call[p].cookie_header)
    /\ Session(p).page = "settled"

\* C17: in a collection harvest and scroll alternate, the harvest first: a
\* harvest happens only when as many scrolls as harvests were done, a scroll
\* only when one more harvest than scrolls was done; a scroll is followed by
\* the settle wait and the wait by a harvest (unless the engine call fails);
\* a collection past its loop without exception has done one more harvest
\* than scrolls; and no step of a collection removes a link from seen.
C17_HarvestScrollAlternate ==
  /\ [](\A p \in Listing :
          /\ hist[p].lead \in { 0, 1 }
          /\ pc[p] \in { "harvest", "scroll_wait" } => hist[p].lead = 0
          /\ pc[p] = "scroll" => hist[p].lead = 1
          /\ pc[p] \in AfterLoop /\ exc[p].type = "none" => hist[p].lead = 1)
  /\ [][\A p \in Listing :
          /\ seen[p] \subseteq seen'[p]
          /\ hist'[p].lead > hist[p].lead => hist[p].lead = 0
          /\ hist'[p].lead < hist[p].lead =>
               hist[p].lead = 1 /\ pc'[p] = "scroll_wait"
          /\ pc[p] = "scroll_wait" /\ pc'[p] # pc[p] =>
               pc'[p] \in { "harvest", "pw_exit" }
          /\ pc[p] = "scroll_wait" /\ pc'[p] = "pw_exit" =>
               exc'[p].type # "none"]_vars

\* a collection of two links has returned after its 15 idle rounds, the
\* scrolls between them done
C17_Witness ==
  \E p \in Listing :
    /\ pc[p] = "done"
    /\ outcome[p].kind = "ReelsOut"
    /\ outcome[p].count = 2
    /\ hist[p].zeroRun = 15
    /\ hist[p].lead = 1

\* the links of every reel the batches of p have shown so far
AllShown(p) == { k \o Slash : k \in hist[p].harvested }

\* C18: a collection with max = 0 runs as one with max absent. For both, and
\* for every sequence of batches: the for loop reaches the end of every batch,
\* seen holds the link of every reel shown so far, idle_rounds counts the
\* latest rounds that showed no new reel, the loop is left without exception
\* only at idle_rounds = 15, and the list returned is the sorted links of all
\* reels shown. The batches thus fix the rounds and the list, the same for
\* max = 0 as for max absent.
C18_ZeroMaxIsNoMax ==
  \A p \in Listing :
    ~call[p].max_count.some \/ call[p].max_count.val = 0 =>
      /\ hist[p].unprocessed = <<>>
      /\ seen[p] = AllShown(p)
      /\ idle_rounds[p] = hist[p].zeroRun
      /\ pc[p] \in AfterLoop /\ exc[p].type = "none" => idle_rounds[p] = 15
      /\ pc[p] = "done" /\ exc[p].type = "none" =>
           /\ outcome[p].kind = "ReelsOut"
           /\ outcome[p].reels = Sorted(AllShown(p))
           /\ outcome[p].count = Cardinality(AllShown(p))

\* a collection with max = 0 returned two links after 15 idle rounds
C18_Witness ==
  \E p \in Listing :
    /\ call[p].max_count.some
    /\ call[p].max_count.val = 0
    /\ pc[p] = "done"
    /\ outcome[p].kind = "ReelsOut"
    /\ outcome[p].count = 2
    /\ idle_rounds[p] = 15

====
